---- MODULE Spec2Model ----
(***************************************************************************)
(* Data-access layer of the calendar backend: the axum handlers of         *)
(* src/src/user.rs and src/src/event.rs running concurrently against one   *)
(* SQLite store through a bb8 connection pool.                             *)
(*                                                                         *)
(* Every handler is a small process: the extractors run (the JSON body is  *)
(* deserialized, serde defaults are evaluated), the handler awaits a       *)
(* pooled connection, then issues its statement(s) and returns, dropping   *)
(* the connection.  Other handlers and the wall clock may move between     *)
(* any two of these steps.                                                 *)
(***************************************************************************)
EXTENDS Integers, Sequences, FiniteSets, TLC

(***************************************************************************)
(* Bounds of the model.                                                    *)
(***************************************************************************)
NumOps == 2        \* requests served in one behaviour, each by its own handler task
MaxPool == 2       \* the pool is built with 1..MaxPool connections
MaxTime == 1       \* the clock runs over 0..MaxTime (unix seconds)
MaxBoots == 2      \* the process is started at most MaxBoots times on one database file
MaxChars == 3      \* check_length is called on strings of at most MaxChars characters
MaxLimit == 3      \* and with a maximum_length in 0..MaxLimit

Procs == 1..NumOps

(***************************************************************************)
(* Option<T> is a sequence of length at most one.                          *)
(***************************************************************************)
None == <<>>
Some(v) == <<v>>
is_some(o) == o # None

(***************************************************************************)
(* A JSON object member is absent, present with null, or present with a    *)
(* value.  A JSON value is JsonNull or JsonVal(v).                         *)
(***************************************************************************)
Absent == <<>>
JsonNull == <<>>
JsonVal(v) == <<v>>
Present(j) == <<j>>

(***************************************************************************)
(* serde's Deserialize for a field of type Option<T>: a missing member and *)
(* an explicit null both give None, a value gives Some(value).             *)
(***************************************************************************)
de_option(m) == IF m = Absent THEN None ELSE IF m[1] = JsonNull THEN None ELSE Some(m[1][1])

(***************************************************************************)
(* Error, as the handlers produce it.  `?` on an anyhow::Error (what       *)
(* .context(..) returns) gives InternalError.                              *)
(***************************************************************************)
NotFound == "NotFound"
UserExists == "UserExists"
InternalError == "InternalError"
JsonRejected == "JsonRejection"
from_anyhow(diesel_error) == InternalError

Ok(body) == [status |-> "Ok", body |-> body]
Err(e) == [status |-> e, body |-> None]

VARIABLES
  users,     \* the users relation, in rowid order: Seq of User
  events,    \* the events relation, in rowid order: Seq of Event
  now,       \* the wall clock, unix seconds
  pool,      \* connections the pool owns
  idle,      \* connections resting in the pool
  pc,        \* per request: "idle" (not yet received), "acquire", "precheck", "insert",
             \*              "stmt", "done", "panicked"
  op,        \* per request: the route and the extracted request
  conn,      \* per request: the connection its handler holds (Option)
  result,    \* per request: what its handler returned (Option of Ok/Err)
  setup,     \* the startup of the process: where it is, and the connection it holds
  ledger,    \* __diesel_schema_migrations: the versions applied, in the order applied
  schema,    \* the tables the database file holds
  called     \* the last call of check_length: its arguments and what it returned (Option)

vars == <<users, events, now, pool, idle, pc, op, conn, result, setup, ledger, schema, called>>

\* what the request handlers leave alone
startup == <<setup, ledger, schema>>

\* Requests are numbered in the order the server receives them; the router that
\* dispatches them is built from the pool that setup_database returned.
received(p) ==
  /\ setup.pc = "serving"
  /\ pc[p] = "idle" /\ \A q \in Procs : q < p => pc[q] # "idle"

\* body: the JSON body as the client sent it; req: what the extractor made of it
NoOp == [kind |-> "none", username |-> "", id |-> 0, body |-> None, req |-> None]

(***************************************************************************)
(* MIGRATIONS, embedded in the binary: an ordered list of versions, each   *)
(* with the tables its `up` creates.  The tables are those of schema.rs.   *)
(***************************************************************************)
Migrations ==
  <<[version |-> 1, up |-> {"users"}],
    [version |-> 2, up |-> {"events"}],
    [version |-> 3, up |-> {"event_guests"}]>>
Versions == {Migrations[i].version : i \in 1..Len(Migrations)}
Tables == UNION {Migrations[i].up : i \in 1..Len(Migrations)}
AllApplied == [i \in 1..Len(Migrations) |-> Migrations[i].version]

NoCall == None

\* setup_database has returned and the router serves: the pool is built, the migration
\* connection is back in it, every migration is applied, and no request has been
\* received.  The store holds what earlier runs left in it.
Started(users0, events0, max_size) ==
  /\ users = users0
  /\ events = events0
  /\ now = 0
  /\ pool = 1..max_size
  /\ idle = pool
  /\ pc = [p \in Procs |-> "idle"]
  /\ op = [p \in Procs |-> NoOp]
  /\ conn = [p \in Procs |-> None]
  /\ result = [p \in Procs |-> None]
  /\ setup = [pc |-> "serving", connection |-> None, run |-> 1]
  /\ ledger = AllApplied
  /\ schema = Tables
  /\ called = NoCall

\* a fresh database file
Init == \E max_size \in 1..MaxPool : Started(<<>>, <<>>, max_size)

(***************************************************************************)
(* The pool.  `pool.get().await.expect("can connect to sqlite")`: the      *)
(* handler suspends until a connection is idle; when none becomes idle     *)
(* before the pool's wait limit, get() returns Err and expect panics, which*)
(* aborts the handler's task.  Dropping the guard returns the connection.  *)
(***************************************************************************)
after_acquire(kind) == IF kind = "user_post" THEN "precheck" ELSE "stmt"

pool_get(p) ==
  /\ pc[p] = "acquire"
  /\ \E c \in idle :
       /\ idle' = idle \ {c}
       /\ conn' = [conn EXCEPT ![p] = Some(c)]
  /\ pc' = [pc EXCEPT ![p] = after_acquire(op[p].kind)]
  /\ UNCHANGED <<users, events, now, pool, op, result, startup, called>>

pool_get_timeout(p) ==
  /\ pc[p] = "acquire"
  /\ idle = {}
  /\ pc' = [pc EXCEPT ![p] = "panicked"]
  /\ UNCHANGED <<users, events, now, pool, idle, op, conn, result, startup, called>>

\* a handler that returns while its connection guard is kept alive (mem::forget)
finish_forget_guard(p, r) ==
  /\ result' = [result EXCEPT ![p] = Some(r)]
  /\ pc' = [pc EXCEPT ![p] = "done"]
  /\ UNCHANGED <<idle, conn>>

\* The handler returns `r`; its connection guard goes out of scope.
finish(p, r) ==
  /\ result' = [result EXCEPT ![p] = Some(r)]
  /\ pc' = [pc EXCEPT ![p] = "done"]
  /\ idle' = IF is_some(conn[p]) THEN idle \cup {conn[p][1]} ELSE idle
  /\ conn' = [conn EXCEPT ![p] = None]

Tick ==
  /\ now < MaxTime
  /\ now' = now + 1
  /\ UNCHANGED <<users, events, pool, idle, pc, op, conn, result, startup, called>>

(***************************************************************************)
(* setup_database, lib.rs.  The pool is built, one connection is taken     *)
(* from it, run_pending_migrations applies in order every migration whose  *)
(* version is not in the ledger, each in a transaction of its own that     *)
(* also records the version, and Ok(pool) is returned.  The two `expect`s  *)
(* panic on an error.  The process may be stopped and started again on the *)
(* same database file.                                                     *)
(***************************************************************************)
applied(versions) == {versions[i] : i \in 1..Len(versions)}

\* a runner that does not consult the ledger
pending_ignoring_ledger(versions) == Migrations

\* the migrations run_pending_migrations still has to apply, in version order
pending(versions) == SelectSeq(Migrations, LAMBDA m : m.version \notin applied(versions))

\* `let _ = connection.run_pending_migrations(MIGRATIONS);`
result_ignored(r) == "returned"

\* `.expect("migrations should be tested to work without error")`
expect(r) == IF r = "Err" THEN "failed" ELSE "returned"

\* bb8::Pool::builder().build(manager).await
setup_build ==
  /\ setup.pc = "start"
  /\ \E max_size \in 1..MaxPool :
       /\ pool' = 1..max_size
       /\ idle' = 1..max_size
  /\ setup' = [setup EXCEPT !.pc = "built"]
  /\ UNCHANGED <<users, events, now, pc, op, conn, result, ledger, schema, called>>

\* .context("Failed to build sqlite pool")?
setup_build_fails ==
  /\ setup.pc = "start"
  /\ setup' = [setup EXCEPT !.pc = "failed"]
  /\ UNCHANGED <<users, events, now, pool, idle, pc, op, conn, result, ledger, schema, called>>

\* cpool.get().await.expect("can connect to sqlite")
setup_get ==
  /\ setup.pc = "built"
  /\ \E c \in idle :
       /\ idle' = idle \ {c}
       /\ setup' = [setup EXCEPT !.pc = "migrating", !.connection = Some(c)]
  /\ UNCHANGED <<users, events, now, pool, pc, op, conn, result, ledger, schema, called>>

\* the database at database_url cannot be opened: get() is Err and expect panics
setup_get_fails ==
  /\ setup.pc = "built"
  /\ setup' = [setup EXCEPT !.pc = "failed"]
  /\ UNCHANGED <<users, events, now, pool, idle, pc, op, conn, result, ledger, schema, called>>

\* run_pending_migrations applies the next pending migration and records its version
run_migration ==
  /\ setup.pc = "migrating"
  /\ pending(ledger) # <<>>
  /\ LET migration == Head(pending(ledger))
     IN /\ schema' = schema \cup migration.up
        /\ ledger' = Append(ledger, migration.version)
  /\ UNCHANGED <<users, events, now, pool, idle, pc, op, conn, result, setup, called>>

\* the next pending migration fails: its transaction is rolled back and
\* run_pending_migrations returns Err
migration_fails ==
  /\ setup.pc = "migrating"
  /\ pending(ledger) # <<>>
  /\ setup' = [setup EXCEPT !.pc = expect("Err"), !.connection = None]
  /\ idle' = idle \cup {setup.connection[1]}
  /\ UNCHANGED <<users, events, now, pool, pc, op, conn, result, ledger, schema, called>>

\* nothing is pending: run_pending_migrations returns Ok, setup_database returns Ok(pool)
\* and its connection goes back to the pool
setup_return ==
  /\ setup.pc = "migrating"
  /\ pending(ledger) = <<>>
  /\ setup' = [setup EXCEPT !.pc = expect("Ok"), !.connection = None]
  /\ idle' = idle \cup {setup.connection[1]}
  /\ UNCHANGED <<users, events, now, pool, pc, op, conn, result, ledger, schema, called>>

\* the binary passes the pool to api_route and serves the router
serve ==
  /\ setup.pc = "returned"
  /\ setup' = [setup EXCEPT !.pc = "serving"]
  /\ UNCHANGED <<users, events, now, pool, idle, pc, op, conn, result, ledger, schema, called>>

\* a process that failed to start, or was stopped before it served, is started again
restart ==
  /\ setup.pc \in {"failed", "returned"}
  /\ setup.run < MaxBoots
  /\ setup' = [pc |-> "start", connection |-> None, run |-> setup.run + 1]
  /\ pool' = {}
  /\ idle' = {}
  /\ UNCHANGED <<users, events, now, pc, op, conn, result, ledger, schema, called>>

SetupStep ==
  \/ setup_build
  \/ setup_build_fails
  \/ setup_get
  \/ setup_get_fails
  \/ run_migration
  \/ migration_fails
  \/ setup_return
  \/ serve
  \/ restart

(***************************************************************************)
(* diesel queries, as functions of the table.                              *)
(***************************************************************************)
\* .filter(pred).first(conn).optional(): the first matching row, if any
RECURSIVE first_where(_, _, _)
first_where(tbl, key, v) ==
  IF tbl = <<>> THEN None
  ELSE IF Head(tbl)[key] = v THEN Some(Head(tbl))
  ELSE first_where(Tail(tbl), key, v)

\* a listing cut to its first row (.limit(1))
load_limit_1(tbl) == SubSeq(tbl, 1, IF Len(tbl) > 0 THEN 1 ELSE 0)

\* table.load(conn): every row, in rowid order
load(tbl) == [i \in 1..Len(tbl) |-> tbl[i]]

(***************************************************************************)
(* users (username): username is the primary key, so SQLite rejects an     *)
(* insert whose username is already in the table.                          *)
(***************************************************************************)
users_pk_unchecked(tbl, row) == TRUE   \* a users table without its primary key
users_pk_free(tbl, row) == \A i \in 1..Len(tbl) : tbl[i].username # row.username

(***************************************************************************)
(* user.rs                                                                 *)
(***************************************************************************)
Usernames == {"alice", "bob"}
\* request bodies of POST /api/user: {"username": ...} and the malformed {}
PostUserBodies == {[username |-> Present(JsonVal(u))] : u \in Usernames} \cup {[username |-> Absent]}

user_get_all_begin(p) ==
  /\ received(p)
  /\ op' = [op EXCEPT ![p] = [NoOp EXCEPT !.kind = "user_get_all"]]
  /\ pc' = [pc EXCEPT ![p] = "acquire"]
  /\ UNCHANGED <<users, events, now, pool, idle, conn, result, startup, called>>

user_get_all(p) ==
  /\ pc[p] = "stmt" /\ op[p].kind = "user_get_all"
  /\ finish(p, Ok(load(users)))
  /\ UNCHANGED <<users, events, now, pool, op, startup, called>>

user_get_by_username_begin(p) ==
  /\ received(p)
  /\ \E u \in Usernames :
       op' = [op EXCEPT ![p] = [NoOp EXCEPT !.kind = "user_get_by_username", !.username = u]]
  /\ pc' = [pc EXCEPT ![p] = "acquire"]
  /\ UNCHANGED <<users, events, now, pool, idle, conn, result, startup, called>>

get_by_username(tbl, username) ==
  LET user == first_where(tbl, "username", username)
  IN IF is_some(user) THEN Ok(user[1]) ELSE Err(NotFound)

user_get_by_username(p) ==
  /\ pc[p] = "stmt" /\ op[p].kind = "user_get_by_username"
  /\ finish(p, get_by_username(users, op[p].username))
  /\ UNCHANGED <<users, events, now, pool, op, startup, called>>

\* `let Json(request) = request?;` with PostUser { username: String }
user_post_begin(p) ==
  /\ received(p)
  /\ \E body \in PostUserBodies :
       IF body.username = Absent \/ body.username[1] = JsonNull
       THEN /\ op' = [op EXCEPT ![p] = [NoOp EXCEPT !.kind = "user_post", !.body = body]]
            /\ finish(p, Err(JsonRejected))
       ELSE /\ op' = [op EXCEPT ![p] = [NoOp EXCEPT !.kind = "user_post", !.body = body,
                                                     !.username = body.username[1][1]]]
            /\ pc' = [pc EXCEPT ![p] = "acquire"]
            /\ UNCHANGED <<idle, conn, result>>
  /\ UNCHANGED <<users, events, now, pool, startup, called>>

\* a pre-check that stamps the row it finds before it reports the conflict
user_post_precheck_touch(p) ==
  /\ pc[p] = "precheck" /\ op[p].kind = "user_post"
  /\ LET found == first_where(users, "username", op[p].username)
     IN IF is_some(found)
        THEN /\ users' = [i \in 1..Len(users) |->
                            IF users[i].username = op[p].username
                            THEN [users[i] EXCEPT !.created_at = now] ELSE users[i]]
             /\ finish(p, Err(UserExists))
        ELSE /\ pc' = [pc EXCEPT ![p] = "insert"]
             /\ UNCHANGED <<users, idle, conn, result>>
  /\ UNCHANGED <<events, now, pool, op, startup, called>>

\* a post whose insert waits for a second pooled connection while the guard of the
\* pre-check's connection is alive
user_post_precheck_second_get(p) ==
  /\ pc[p] = "precheck" /\ op[p].kind = "user_post"
  /\ LET found == first_where(users, "username", op[p].username)
     IN IF is_some(found)
        THEN finish(p, Err(UserExists))
        ELSE /\ \E c \in idle : idle' = idle \ {c}
             /\ pc' = [pc EXCEPT ![p] = "insert"]
             /\ UNCHANGED <<conn, result>>
  /\ UNCHANGED <<users, events, now, pool, op, startup, called>>

\* the existence pre-check: select 1 ... .first().optional(), then `if result.is_some()`
user_post_precheck(p) ==
  /\ pc[p] = "precheck" /\ op[p].kind = "user_post"
  /\ LET found == first_where(users, "username", op[p].username)
     IN IF is_some(found)
        THEN finish(p, Err(UserExists))
        ELSE /\ pc' = [pc EXCEPT ![p] = "insert"]
             /\ UNCHANGED <<idle, conn, result>>
  /\ UNCHANGED <<users, events, now, pool, op, startup, called>>

\* an insert written as INSERT OR REPLACE: a row with the username gives way to the new one
user_post_insert_or_replace(p) ==
  /\ pc[p] = "insert" /\ op[p].kind = "user_post"
  /\ LET created_at == now
         user == [username |-> op[p].username, created_at |-> created_at]
     IN /\ users' = Append(SelectSeq(users, LAMBDA row : row.username # user.username), user)
        /\ finish(p, Ok(None))
  /\ UNCHANGED <<events, now, pool, op, startup, called>>

\* created_at is read from the clock, then the insert is executed
user_post_insert(p) ==
  /\ pc[p] = "insert" /\ op[p].kind = "user_post"
  /\ LET created_at == now
         user == [username |-> op[p].username, created_at |-> created_at]
     IN IF users_pk_free(users, user)
        THEN /\ users' = Append(users, user)
             /\ finish(p, Ok(None))
        ELSE /\ users' = users
             /\ finish(p, Err(from_anyhow("UniqueViolation")))
  /\ UNCHANGED <<events, now, pool, op, startup, called>>

UserStep(p) ==
  \/ user_get_all_begin(p)
  \/ user_get_all(p)
  \/ user_get_by_username_begin(p)
  \/ user_get_by_username(p)
  \/ user_post_begin(p)
  \/ user_post_precheck(p)
  \/ user_post_insert(p)

PoolStep(p) ==
  \/ pool_get(p)
  \/ pool_get_timeout(p)

NextUsers == Tick \/ \E p \in Procs : UserStep(p) \/ PoolStep(p)

SpecUsers == Init /\ [][NextUsers]_vars

(***************************************************************************)
(* event.rs                                                                *)
(*                                                                         *)
(* f32 coordinates are written as whole numbers; SQLite stores them as     *)
(* REAL (f64) and f32 -> f64 -> f32 is exact, so a stored coordinate reads *)
(* back as the value bound.                                                *)
(***************************************************************************)
EventIds == {1, 2}

NoMembers ==
  [title |-> Absent, description |-> Absent, color |-> Absent, startDate |-> Absent,
   endDate |-> Absent, locationLng |-> Absent, locationLat |-> Absent,
   createdAt |-> Absent, editedAt |-> Absent, id |-> Absent]

Val(v) == Present(JsonVal(v))
Null == Present(JsonNull)
\* the JSON array [null, null]
JsonArray == <<JsonNull, JsonNull>>

\* bodies of POST /api/event
TripBody == [NoMembers EXCEPT !.title = Val("Trip"), !.startDate = Val(1691226000),
                              !.endDate = Val(1691830800)]
TripNullsBody == [TripBody EXCEPT !.description = Null, !.color = Null,
                                  !.locationLng = Null, !.locationLat = Null]
BigMikeBody == [NoMembers EXCEPT !.title = Val("Big Mike"), !.description = Val("We hike"),
                                 !.color = Val("#87d45d"), !.startDate = Val(1691226000),
                                 !.endDate = Val(1691830800), !.locationLng = Val(60),
                                 !.locationLat = Val(7), !.createdAt = Val(5)]
PostEventBodies == {TripBody, TripNullsBody, BigMikeBody, NoMembers,
                    [TripBody EXCEPT !.title = Null]}

\* bodies of PUT /api/event/{id}
PatchValue ==
  [title |-> "Hike", description |-> "Up north", color |-> "#ff0000", startDate |-> 1691226001,
   endDate |-> 1691830801, locationLng |-> 61, locationLat |-> 8]
PatchMembers == DOMAIN PatchValue
AllMembersBody ==
  [m \in DOMAIN NoMembers |-> IF m \in PatchMembers THEN Val(PatchValue[m]) ELSE Val(5)]
PutEventBodies ==
  {NoMembers,
   [NoMembers EXCEPT !.title = Val("Hike")],
   [NoMembers EXCEPT !.color = Val("#ff0000")],
   [NoMembers EXCEPT !.locationLng = Val(61), !.locationLat = Null],
   AllMembersBody,
   [NoMembers EXCEPT !.title = Present(JsonArray)]}

is_value(m) == m # Absent /\ m[1] # JsonNull

\* PostEvent without #[serde(skip)] on created_at: a createdAt member of the body is taken
de_PostEvent_client_created_at(body, unix_timestamp) ==
  IF is_value(body.title) /\ is_value(body.startDate) /\ is_value(body.endDate)
  THEN Some([title |-> body.title[1][1],
             description |-> de_option(body.description),
             color |-> de_option(body.color),
             start_date |-> body.startDate[1][1],
             end_date |-> body.endDate[1][1],
             location_lng |-> de_option(body.locationLng),
             location_lat |-> de_option(body.locationLat),
             created_at |-> IF is_value(body.createdAt) THEN body.createdAt[1][1]
                            ELSE unix_timestamp])
  ELSE None

\* Deserialize for PostEvent: title, start_date, end_date are required; created_at is
\* #[serde(skip, default = "unix_timestamp")]
de_PostEvent(body, unix_timestamp) ==
  IF is_value(body.title) /\ is_value(body.startDate) /\ is_value(body.endDate)
  THEN Some([title |-> body.title[1][1],
             description |-> de_option(body.description),
             color |-> de_option(body.color),
             start_date |-> body.startDate[1][1],
             end_date |-> body.endDate[1][1],
             location_lng |-> de_option(body.locationLng),
             location_lat |-> de_option(body.locationLat),
             created_at |-> unix_timestamp])
  ELSE None

\* a deserializer that takes any JSON value for any field
mistyped_never(m) == FALSE

\* a member whose value is a JSON array, which no field of PutEvent accepts
mistyped(m) == m # Absent /\ Len(m[1]) = 2

\* PutEvent without #[serde(skip)] on edited_at: an editedAt member of the body is taken
de_PutEvent_client_edited_at(body, unix_timestamp) ==
  IF \E m \in PatchMembers : mistyped(body[m])
  THEN None
  ELSE Some([title |-> de_option(body.title),
             description |-> de_option(body.description),
             color |-> de_option(body.color),
             start_date |-> de_option(body.startDate),
             end_date |-> de_option(body.endDate),
             location_lng |-> de_option(body.locationLng),
             location_lat |-> de_option(body.locationLat),
             edited_at |-> IF is_value(body.editedAt) THEN body.editedAt[1][1]
                           ELSE unix_timestamp])

\* Deserialize for PutEvent: every member is Option<T>, so none is required, and a member
\* of the wrong JSON type is an error; edited_at is #[serde(skip, default = "unix_timestamp")]
de_PutEvent(body, unix_timestamp) ==
  IF \E m \in PatchMembers : mistyped(body[m])
  THEN None
  ELSE Some([title |-> de_option(body.title),
             description |-> de_option(body.description),
             color |-> de_option(body.color),
             start_date |-> de_option(body.startDate),
             end_date |-> de_option(body.endDate),
             location_lng |-> de_option(body.locationLng),
             location_lat |-> de_option(body.locationLat),
             edited_at |-> unix_timestamp])

\* events (id): INTEGER PRIMARY KEY, SQLite assigns the largest rowid plus one
RECURSIVE max_id(_)
max_id(tbl) ==
  IF tbl = <<>> THEN 0
  ELSE LET m == max_id(Tail(tbl)) IN IF Head(tbl).id > m THEN Head(tbl).id ELSE m

\* insert_into(events).values(&req): the columns of PostEvent; id and edited_at take
\* their defaults
insert_event(tbl, req) ==
  [id |-> max_id(tbl) + 1,
   title |-> req.title,
   description |-> req.description,
   color |-> req.color,
   start_date |-> req.start_date,
   end_date |-> req.end_date,
   location_lng |-> req.location_lng,
   location_lat |-> req.location_lat,
   created_at |-> req.created_at,
   edited_at |-> None]

\* a changeset that stamps edited_at only when it writes some other column
as_changeset_stamp_if_changed(row, req) ==
  [row EXCEPT
     !.title = IF is_some(req.title) THEN req.title[1] ELSE @,
     !.description = IF is_some(req.description) THEN req.description ELSE @,
     !.color = IF is_some(req.color) THEN req.color ELSE @,
     !.start_date = IF is_some(req.start_date) THEN req.start_date[1] ELSE @,
     !.end_date = IF is_some(req.end_date) THEN req.end_date[1] ELSE @,
     !.location_lng = IF is_some(req.location_lng) THEN req.location_lng ELSE @,
     !.location_lat = IF is_some(req.location_lat) THEN req.location_lat ELSE @,
     !.edited_at = IF \E c \in DOMAIN req : c # "edited_at" /\ is_some(req[c])
                   THEN Some(req.edited_at) ELSE @]

\* a changeset with #[diesel(treat_none_as_null = true)]: a None field writes NULL
as_changeset_none_as_null(row, req) ==
  [row EXCEPT
     !.title = IF is_some(req.title) THEN req.title[1] ELSE @,
     !.description = req.description,
     !.color = req.color,
     !.start_date = IF is_some(req.start_date) THEN req.start_date[1] ELSE @,
     !.end_date = IF is_some(req.end_date) THEN req.end_date[1] ELSE @,
     !.location_lng = req.location_lng,
     !.location_lat = req.location_lat,
     !.edited_at = Some(req.edited_at)]

\* AsChangeset for PutEvent: a None field is left out of the SET clause
as_changeset(row, req) ==
  [row EXCEPT
     !.title = IF is_some(req.title) THEN req.title[1] ELSE @,
     !.description = IF is_some(req.description) THEN req.description ELSE @,
     !.color = IF is_some(req.color) THEN req.color ELSE @,
     !.start_date = IF is_some(req.start_date) THEN req.start_date[1] ELSE @,
     !.end_date = IF is_some(req.end_date) THEN req.end_date[1] ELSE @,
     !.location_lng = IF is_some(req.location_lng) THEN req.location_lng ELSE @,
     !.location_lat = IF is_some(req.location_lat) THEN req.location_lat ELSE @,
     !.edited_at = Some(req.edited_at)]

\* update(events.filter(id.eq(id))).set(&req)
update_where_id(tbl, id, req) ==
  [i \in 1..Len(tbl) |-> IF tbl[i].id = id THEN as_changeset(tbl[i], req) ELSE tbl[i]]

\* a delete whose filter is id.ne(id)
delete_where_not_id(tbl, id) == SelectSeq(tbl, LAMBDA row : row.id = id)

\* delete(events.filter(id.eq(id)))
RECURSIVE delete_where_id(_, _)
delete_where_id(tbl, id) ==
  IF tbl = <<>> THEN <<>>
  ELSE IF Head(tbl).id = id THEN delete_where_id(Tail(tbl), id)
  ELSE <<Head(tbl)>> \o delete_where_id(Tail(tbl), id)

\* what an earlier run of the service may have left in the events table
BigMikeRow == insert_event(<<>>, de_PostEvent(BigMikeBody, 0)[1])
TripRow == insert_event(<<BigMikeRow>>, de_PostEvent(TripBody, 0)[1])
PersistedEvents == {<<>>, <<BigMikeRow, TripRow>>}

event_get_all_begin(p) ==
  /\ received(p)
  /\ op' = [op EXCEPT ![p] = [NoOp EXCEPT !.kind = "event_get_all"]]
  /\ pc' = [pc EXCEPT ![p] = "acquire"]
  /\ UNCHANGED <<users, events, now, pool, idle, conn, result, startup, called>>

event_get_all(p) ==
  /\ pc[p] = "stmt" /\ op[p].kind = "event_get_all"
  /\ finish(p, Ok(load(events)))
  /\ UNCHANGED <<users, events, now, pool, op, startup, called>>

event_get_by_id_begin(p) ==
  /\ received(p)
  /\ \E id \in EventIds :
       op' = [op EXCEPT ![p] = [NoOp EXCEPT !.kind = "event_get_by_id", !.id = id]]
  /\ pc' = [pc EXCEPT ![p] = "acquire"]
  /\ UNCHANGED <<users, events, now, pool, idle, conn, result, startup, called>>

\* a lookup without its filter: the first row of the table
get_by_id_unfiltered(tbl, id) == IF tbl = <<>> THEN Err(NotFound) ELSE Ok(Head(tbl))

get_by_id(tbl, id) ==
  LET event == first_where(tbl, "id", id)
  IN IF is_some(event) THEN Ok(event[1]) ELSE Err(NotFound)

\* a lookup that consumes what it finds: SELECT followed by DELETE of the same id
event_get_by_id_consuming(p) ==
  /\ pc[p] = "stmt" /\ op[p].kind = "event_get_by_id"
  /\ events' = delete_where_id(events, op[p].id)
  /\ finish(p, get_by_id(events, op[p].id))
  /\ UNCHANGED <<users, now, pool, op, startup, called>>

event_get_by_id(p) ==
  /\ pc[p] = "stmt" /\ op[p].kind = "event_get_by_id"
  /\ finish(p, get_by_id(events, op[p].id))
  /\ UNCHANGED <<users, events, now, pool, op, startup, called>>

\* the Json<PostEvent> extractor, then `let Json(req) = req?;`
event_post_begin(p) ==
  /\ received(p)
  /\ \E body \in PostEventBodies :
       LET req == de_PostEvent(body, now)
       IN IF is_some(req)
          THEN /\ op' = [op EXCEPT ![p] = [NoOp EXCEPT !.kind = "event_post", !.body = body,
                                                       !.req = req[1]]]
               /\ pc' = [pc EXCEPT ![p] = "acquire"]
               /\ UNCHANGED <<idle, conn, result>>
          ELSE /\ op' = [op EXCEPT ![p] = [NoOp EXCEPT !.kind = "event_post", !.body = body]]
               /\ finish(p, Err(JsonRejected))
  /\ UNCHANGED <<users, events, now, pool, startup, called>>

event_post(p) ==
  /\ pc[p] = "stmt" /\ op[p].kind = "event_post"
  /\ LET event == insert_event(events, op[p].req)
     IN /\ events' = Append(events, event)
        /\ finish(p, Ok(event))
  /\ UNCHANGED <<users, now, pool, op, startup, called>>

event_delete_by_id_begin(p) ==
  /\ received(p)
  /\ \E id \in EventIds :
       op' = [op EXCEPT ![p] = [NoOp EXCEPT !.kind = "event_delete_by_id", !.id = id]]
  /\ pc' = [pc EXCEPT ![p] = "acquire"]
  /\ UNCHANGED <<users, events, now, pool, idle, conn, result, startup, called>>

\* DELETE FROM events without its WHERE clause
event_delete_by_id_unfiltered(p) ==
  /\ pc[p] = "stmt" /\ op[p].kind = "event_delete_by_id"
  /\ events' = <<>>
  /\ finish(p, Ok(None))
  /\ UNCHANGED <<users, now, pool, op, startup, called>>

event_delete_by_id(p) ==
  /\ pc[p] = "stmt" /\ op[p].kind = "event_delete_by_id"
  /\ events' = delete_where_id(events, op[p].id)
  /\ finish(p, Ok(None))
  /\ UNCHANGED <<users, now, pool, op, startup, called>>

\* the Path<i64> and Json<PutEvent> extractors, then `let Json(req) = req?;`
event_put_begin(p) ==
  /\ received(p)
  /\ \E id \in EventIds, body \in PutEventBodies :
       LET req == de_PutEvent(body, now)
       IN IF is_some(req)
          THEN /\ op' = [op EXCEPT ![p] = [NoOp EXCEPT !.kind = "event_put", !.id = id,
                                                       !.body = body, !.req = req[1]]]
               /\ pc' = [pc EXCEPT ![p] = "acquire"]
               /\ UNCHANGED <<idle, conn, result>>
          ELSE /\ op' = [op EXCEPT ![p] = [NoOp EXCEPT !.kind = "event_put", !.id = id,
                                                       !.body = body]]
               /\ finish(p, Err(JsonRejected))
  /\ UNCHANGED <<users, events, now, pool, startup, called>>

\* update(..).set(&req).get_result(conn).context(..)?: get_result is Err(NotFound)
\* when the statement returns no row, and the error goes through anyhow
event_put(p) ==
  /\ pc[p] = "stmt" /\ op[p].kind = "event_put"
  /\ events' = update_where_id(events, op[p].id, op[p].req)
  /\ LET event == first_where(events', "id", op[p].id)
     IN IF is_some(event)
        THEN finish(p, Ok(event[1]))
        ELSE finish(p, Err(from_anyhow("NotFound")))
  /\ UNCHANGED <<users, now, pool, op, startup, called>>

EventStep(p) ==
  \/ event_get_all_begin(p)
  \/ event_get_all(p)
  \/ event_get_by_id_begin(p)
  \/ event_get_by_id(p)
  \/ event_post_begin(p)
  \/ event_post(p)
  \/ event_delete_by_id_begin(p)
  \/ event_delete_by_id(p)
  \/ event_put_begin(p)
  \/ event_put(p)

NextEvents == Tick \/ \E p \in Procs : EventStep(p) \/ PoolStep(p)

\* Every event handler issues one statement, so the size of the pool only decides who
\* waits: the smallest pool is taken.  The table holds two events of an earlier run.
InitEvents == Started(<<>>, <<BigMikeRow, TripRow>>, 1)

SpecEvents == InitEvents /\ [][NextEvents]_vars

\* what an earlier run may have left in the users table
PersistedUsers == {<<>>, <<[username |-> "alice", created_at |-> 0]>>}

InitLookups ==
  \E users0 \in PersistedUsers, events0 \in PersistedEvents : Started(users0, events0, 1)

\* the lookups by key, among the handlers that add and remove rows
LookupStep(p) ==
  \/ user_get_by_username_begin(p)
  \/ user_get_by_username(p)
  \/ user_post_begin(p)
  \/ user_post_precheck(p)
  \/ user_post_insert(p)
  \/ event_get_by_id_begin(p)
  \/ event_get_by_id(p)
  \/ event_post_begin(p)
  \/ event_post(p)
  \/ event_delete_by_id_begin(p)
  \/ event_delete_by_id(p)

NextLookups == Tick \/ \E p \in Procs : LookupStep(p) \/ PoolStep(p)

SpecLookups == InitLookups /\ [][NextLookups]_vars

\* what an earlier run of the process may have left in the database file: nothing, the
\* first migration only (the run stopped there), or a migrated store with rows
PersistedStores ==
  {[ledger |-> <<>>, schema |-> {}, users |-> <<>>, events |-> <<>>],
   [ledger |-> <<Migrations[1].version>>, schema |-> Migrations[1].up,
    users |-> <<>>, events |-> <<>>]}
  \cup {[ledger |-> AllApplied, schema |-> Tables, users |-> users0, events |-> events0] :
          users0 \in PersistedUsers, events0 \in PersistedEvents}

\* the process starts
InitStartup ==
  \E store \in PersistedStores :
    /\ users = store.users
    /\ events = store.events
    /\ ledger = store.ledger
    /\ schema = store.schema
    /\ now = 0
    /\ pool = {}
    /\ idle = {}
    /\ pc = [p \in Procs |-> "idle"]
    /\ op = [p \in Procs |-> NoOp]
    /\ conn = [p \in Procs |-> None]
    /\ result = [p \in Procs |-> None]
    /\ setup = [pc |-> "start", connection |-> None, run |-> 1]
    /\ called = NoCall

\* the startup, and then the two listings
StartupStep(p) ==
  \/ user_get_all_begin(p)
  \/ user_get_all(p)
  \/ event_get_all_begin(p)
  \/ event_get_all(p)

NextStartup == SetupStep \/ \E p \in Procs : StartupStep(p) \/ PoolStep(p)

SpecStartup == InitStartup /\ [][NextStartup]_vars

\* the listings, among the handlers that write the two tables
ListStep(p) ==
  \/ user_get_all_begin(p)
  \/ user_get_all(p)
  \/ user_post_begin(p)
  \/ user_post_precheck(p)
  \/ user_post_insert(p)
  \/ event_get_all_begin(p)
  \/ event_get_all(p)
  \/ event_post_begin(p)
  \/ event_post(p)
  \/ event_delete_by_id_begin(p)
  \/ event_delete_by_id(p)
  \/ event_put_begin(p)
  \/ event_put(p)

NextLists == Tick \/ \E p \in Procs : ListStep(p) \/ PoolStep(p)

\* one event of an earlier run, no user yet, the smallest pool
InitLists == Started(<<>>, <<BigMikeRow>>, 1)

SpecLists == InitLists /\ [][NextLists]_vars

(***************************************************************************)
(* util.rs.  A &str is a sequence of characters; str::len is the number of *)
(* bytes of its UTF-8 encoding.                                            *)
(***************************************************************************)
\* one character of one byte and one of two ("a", and U+00E9, e with acute accent)
Chars == {"a", "U+00E9"}
utf8_width(ch) == IF ch = "a" THEN 1 ELSE 2

Strs == UNION {[1..n -> Chars] : n \in 0..MaxChars}

\* field.len()
RECURSIVE len(_)
len(str) == IF str = <<>> THEN 0 ELSE utf8_width(Head(str)) + len(Tail(str))

TooManyCharacters(field, maximum_length) ==
  [status |-> "TooManyCharacters",
   body |-> Some([field |-> field, maximum_length |-> maximum_length])]

\* a check that also refuses a field of exactly maximum_length bytes
check_length_inclusive(field_name, field, maximum_length) ==
  IF is_some(field) /\ len(field[1]) >= maximum_length
  THEN TooManyCharacters(field_name, maximum_length)
  ELSE Ok(None)

check_length(field_name, field, maximum_length) ==
  IF is_some(field) /\ len(field[1]) > maximum_length
  THEN TooManyCharacters(field_name, maximum_length)
  ELSE Ok(None)

FieldNames == {"title", "username"}

\* a caller validates a field
check_length_call ==
  /\ \E field_name \in FieldNames, field \in {None} \cup {Some(str) : str \in Strs},
        maximum_length \in 0..MaxLimit :
       called' = Some([field_name |-> field_name, field |-> field,
                       maximum_length |-> maximum_length,
                       returned |-> check_length(field_name, field, maximum_length)])
  /\ UNCHANGED <<users, events, now, pool, idle, pc, op, conn, result, startup>>

NextCheckLength == check_length_call

SpecCheckLength == Init /\ [][NextCheckLength]_vars

\* a pool of any size, a users table that may hold alice, an events table holding the
\* first event only: every exit path of the handlers below is open
InitPool ==
  \E max_size \in 1..MaxPool, users0 \in PersistedUsers :
    Started(users0, <<BigMikeRow>>, max_size)

\* the handlers with more than one exit path after the connection is acquired
PoolUserStep(p) ==
  \/ user_get_by_username_begin(p)
  \/ user_get_by_username(p)
  \/ user_post_begin(p)
  \/ user_post_precheck(p)
  \/ user_post_insert(p)
  \/ event_get_by_id_begin(p)
  \/ event_get_by_id(p)

NextPool == Tick \/ \E p \in Procs : PoolUserStep(p) \/ PoolStep(p)

SpecPool == InitPool /\ [][NextPool]_vars

Next == Tick \/ \E p \in Procs : UserStep(p) \/ EventStep(p) \/ PoolStep(p)

Spec == Init /\ [][Next]_vars

(***************************************************************************)
(* Vocabulary of the properties.                                           *)
(***************************************************************************)
\* this step is the one in which the handler of request p, of route `kind`, receives it
begins(p, kind) == pc[p] = "idle" /\ pc'[p] = "acquire" /\ op'[p].kind = kind
\* this step is the one in which the handler of p issues its last statement and returns
returns(p, kind) ==
  pc[p] \in {"stmt", "precheck", "insert"} /\ pc'[p] = "done" /\ op[p].kind = kind
returned(p, kind) == pc[p] = "done" /\ op[p].kind = kind
status(p) == result[p][1].status
body(p) == result[p][1].body

rows_of_user(tbl, u) == {i \in 1..Len(tbl) : tbl[i].username = u}
rows_of_id(tbl, id) == {i \in 1..Len(tbl) : tbl[i].id = id}

(***************************************************************************)
(* C1. Concurrent create-user requests for one username that has no row    *)
(* beforehand, whatever the interleaving of their pre-checks and inserts:  *)
(* every one that has returned returned success or UserExists, exactly one *)
(* returned success, and exactly one row holds the username.               *)
(* (Checked from a fresh database, so no username has a row beforehand.)   *)
(***************************************************************************)
C1_ExactlyOneCreationSucceeds ==
  \A u \in Usernames :
    LET posts == {p \in Procs : returned(p, "user_post") /\ op[p].username = u}
    IN posts # {} =>
         /\ \A p \in posts : status(p) \in {"Ok", UserExists}
         /\ Cardinality({p \in posts : status(p) = "Ok"}) = 1
         /\ Cardinality(rows_of_user(users, u)) = 1

(***************************************************************************)
(* C2. A create-user request for a username that has a row fails with      *)
(* UserExists on both paths: when its pre-check finds the row, and when    *)
(* its pre-check found none but its insert meets the row (the primary key  *)
(* rejects it).  On neither path is the outcome InternalError.             *)
(***************************************************************************)
C2_DuplicateIsUserExists ==
  [][\A p \in Procs :
       (returns(p, "user_post") /\ rows_of_user(users, op[p].username) # {})
         => result'[p] = Some(Err(UserExists))]_vars

(***************************************************************************)
(* C3. In every reachable state no two rows of users have the same         *)
(* username.                                                               *)
(***************************************************************************)
C3_UsernamesUnique ==
  \A i, j \in 1..Len(users) : users[i].username = users[j].username => i = j

\* an insert has met a row with its username, and the table still holds one row for it
C3_Witness ==
  \E p \in Procs :
    /\ returned(p, "user_post")
    /\ status(p) = InternalError
    /\ Cardinality(rows_of_user(users, op[p].username)) = 1

(***************************************************************************)
(* Columns of events that a PUT body can write, by the field of PutEvent.  *)
(***************************************************************************)
RequiredColumns == {"title", "start_date", "end_date"}
NullableColumns == {"description", "color", "location_lng", "location_lat"}
ClientColumns == RequiredColumns \cup NullableColumns
row_of_id(tbl, id) == tbl[CHOOSE i \in rows_of_id(tbl, id) : TRUE]
input_kept(row, req) == \A c \in ClientColumns : row[c] = req[c]
empty_patch(req) == \A c \in ClientColumns : req[c] = None

C6_PatchTouchesOnlyPresentFields ==
  [][\A p \in Procs :
       (returns(p, "event_put") /\ rows_of_id(events, op[p].id) # {})
         => /\ Len(events') = Len(events)
            /\ \A i \in 1..Len(events) :
                 LET old == events[i]
                     new == events'[i]
                 IN IF old.id # op[p].id
                    THEN new = old
                    ELSE /\ \A c \in RequiredColumns :
                              new[c] = IF is_some(op[p].req[c]) THEN op[p].req[c][1] ELSE old[c]
                         /\ \A c \in NullableColumns :
                              new[c] = IF is_some(op[p].req[c]) THEN op[p].req[c] ELSE old[c]
                         /\ new.id = old.id
                         /\ new.created_at = old.created_at
                         /\ new.edited_at = Some(op[p].req.edited_at)
                         /\ result'[p] = Some(Ok(new))]_vars

\* a patch holding only a title has been applied to the row with every column set, beside
\* another row
C6_Witness ==
  \E p \in Procs :
    /\ returned(p, "event_put")
    /\ op[p].body = [NoMembers EXCEPT !.title = Val("Hike")]
    /\ status(p) = "Ok"
    /\ events = <<[BigMikeRow EXCEPT !.title = "Hike", !.edited_at = Some(op[p].req.edited_at)],
                  TripRow>>

(***************************************************************************)
(* C7. The patch is tri-state per field: updateById of an existing event   *)
(* whose optional column (description, color, location_lng, location_lat)  *)
(* holds a value, with that member present and null in the body, sets the  *)
(* column to null; with the member absent it leaves the column as stored.  *)
(***************************************************************************)
MemberOf == [description |-> "description", color |-> "color",
             location_lng |-> "locationLng", location_lat |-> "locationLat"]

C7_NullMemberClearsColumn ==
  [][\A p \in Procs :
       (returns(p, "event_put") /\ rows_of_id(events, op[p].id) # {})
         => \A c \in NullableColumns :
              LET old == row_of_id(events, op[p].id)
                  new == row_of_id(events', op[p].id)
                  member == op[p].body[MemberOf[c]]
              IN is_some(old[c]) =>
                   /\ member = Null => new[c] = None
                   /\ member = Absent => new[c] = old[c]]_vars

(***************************************************************************)
(* C8. updateById with an id that matches no row fails with NotFound,      *)
(* creates no row and leaves every event as it was.                        *)
(***************************************************************************)
C8_UpdateOfMissingIsNotFound ==
  [][\A p \in Procs :
       (returns(p, "event_put") /\ rows_of_id(events, op[p].id) = {})
         => /\ result'[p] = Some(Err(NotFound))
            /\ events' = events]_vars

(***************************************************************************)
(* C9. deleteById succeeds whether or not a row matches; when none matches *)
(* it changes nothing; after it a getById of that id finds nothing, and    *)
(* deleting again gives the same table.                                    *)
(***************************************************************************)
C9_DeleteIsIdempotent ==
  [][\A p \in Procs :
       returns(p, "event_delete_by_id") =>
         /\ result'[p] = Some(Ok(None))
         /\ rows_of_id(events, op[p].id) = {} => events' = events
         /\ get_by_id(events', op[p].id) = Err(NotFound)
         /\ delete_where_id(events', op[p].id) = events'
         /\ users' = users]_vars

\* a delete of an id that never had a row has succeeded, and a second delete of a row that
\* the first one removed has succeeded too
C9_Witness ==
  \/ \E p \in Procs :
       /\ returned(p, "event_delete_by_id") /\ status(p) = "Ok"
       /\ events = <<>>
       /\ \A q \in Procs \ {p} : pc[q] = "idle"
  \/ \E p, q \in Procs :
       /\ p # q /\ op[p].id = op[q].id
       /\ returned(p, "event_delete_by_id") /\ status(p) = "Ok"
       /\ returned(q, "event_delete_by_id") /\ status(q) = "Ok"
       /\ Len(events) = 1

(***************************************************************************)
(* C10. getById(id) returns NotFound exactly when no row of events has     *)
(* that id at the time of the query, and otherwise the one stored row with *)
(* that id; getByUsername(name) returns NotFound exactly when no row of    *)
(* users has that username, and otherwise that row.                        *)
(***************************************************************************)
C10_LookupFindsTheRow ==
  [][\A p \in Procs :
       /\ returns(p, "event_get_by_id") =>
            LET rows == rows_of_id(events, op[p].id)
            IN /\ (result'[p][1].status = NotFound) <=> (rows = {})
               /\ rows # {} =>
                    /\ Cardinality(rows) = 1
                    /\ result'[p] = Some(Ok(row_of_id(events, op[p].id)))
               /\ rows = {} => result'[p] = Some(Err(NotFound))
       /\ returns(p, "user_get_by_username") =>
            LET rows == rows_of_user(users, op[p].username)
            IN /\ (result'[p][1].status = NotFound) <=> (rows = {})
               /\ rows # {} =>
                    /\ Cardinality(rows) = 1
                    /\ \E i \in rows : result'[p] = Some(Ok(users[i]))
               /\ rows = {} => result'[p] = Some(Err(NotFound))]_vars

\* a lookup of the second event has returned it, and a lookup of a username without a row
\* has returned NotFound beside a row of another username
C10_Witness ==
  \E p, q \in Procs :
    /\ returned(p, "event_get_by_id") /\ result[p] = Some(Ok(TripRow))
    /\ returned(q, "user_get_by_username") /\ result[q] = Some(Err(NotFound))
    /\ Len(users) = 1

(***************************************************************************)
(* C11. A handler holds a connection exactly between its acquire and its   *)
(* return, whatever it returns (success, NotFound, UserExists, a storage   *)
(* failure): a handler that has returned holds none; no connection is held *)
(* by two handlers; every connection of the pool is either idle or held by *)
(* one handler, so no more are checked out than the pool has.              *)
(***************************************************************************)
holding == {p \in Procs : is_some(conn[p])}

C11_ConnectionReturnedOnEveryPath ==
  /\ \A p \in Procs :
       IF pc[p] \in {"precheck", "insert", "stmt"}
       THEN is_some(conn[p]) /\ conn[p][1] \in pool \ idle
       ELSE conn[p] = None
  /\ \A p, q \in holding : conn[p] = conn[q] => p = q
  /\ idle \subseteq pool
  /\ pool \ idle = {conn[p][1] : p \in holding}
  /\ Cardinality(holding) <= Cardinality(pool)

\* two creations of one username have raced on a pool of two connections; the loser left
\* by the storage failure, the winner by success, and both connections are idle again
C11_Witness ==
  \E p, q \in Procs :
    /\ returned(p, "user_post") /\ status(p) = InternalError
    /\ returned(q, "user_post") /\ status(q) = "Ok"
    /\ Cardinality(pool) = 2
    /\ idle = pool

(***************************************************************************)
(* C12. A handler whose acquire gives up (no connection became idle before *)
(* the pool's wait limit) returns an internal-failure result to its caller:*)
(* it does not abort, and it leaves the relations as they were.            *)
(***************************************************************************)
C12_AcquireTimeoutIsInternalError ==
  [][\A p \in Procs :
       (pc[p] = "acquire" /\ pc'[p] # "acquire" /\ conn'[p] = None)
         => /\ pc'[p] = "done"
            /\ result'[p] = Some(Err(InternalError))
            /\ users' = users
            /\ events' = events]_vars

(***************************************************************************)
(* C13. The migration run completes before any request is served: the      *)
(* service starts serving only from a setup_database that returned, with   *)
(* every migration applied and every table present; a handler moves only   *)
(* while the service serves on such a store; and a run whose setup failed  *)
(* stays failed, so it never serves.                                       *)
(***************************************************************************)
migrated == ledger = AllApplied /\ schema = Tables

C13_MigratedBeforeServing ==
  [][/\ (setup'.pc = "serving" /\ setup.pc # "serving") => (setup.pc = "returned" /\ migrated)
     /\ setup'.pc = "returned" => migrated'
     /\ (setup.pc = "failed" /\ setup'.run = setup.run) => setup'.pc = "failed"
     /\ \A p \in Procs :
          (pc'[p] # pc[p] \/ result'[p] # result[p] \/ conn'[p] # conn[p])
            => (setup.pc = "serving" /\ migrated)]_vars

\* the first run of the process failed in its migrations on a fresh database file; the
\* second run migrated it, serves, and has answered a request
C13_Witness ==
  /\ setup.pc = "serving"
  /\ setup.run = 2
  /\ migrated
  /\ \E p \in Procs : returned(p, "user_get_all") /\ status(p) = "Ok"

(***************************************************************************)
(* C14. The migration runner applies a migration only when its version is  *)
(* not in the ledger and every earlier version is: the ledger grows by one *)
(* version at a time, in the fixed order, and never holds a version twice, *)
(* over any number of startups.  A startup on a store whose ledger holds   *)
(* every version applies nothing: the ledger, the schema and the rows of   *)
(* events and users stay as they were.                                     *)
(***************************************************************************)
C14_RerunAppliesNothing ==
  [][/\ ledger' # ledger =>
          \E i \in 1..Len(Migrations) :
            /\ Migrations[i].version \notin applied(ledger)
            /\ \A j \in 1..(i - 1) : Migrations[j].version \in applied(ledger)
            /\ ledger' = Append(ledger, Migrations[i].version)
            /\ schema' = schema \cup Migrations[i].up
     /\ schema' # schema => ledger' # ledger
     /\ \A i, j \in 1..Len(ledger') : ledger'[i] = ledger'[j] => i = j
     /\ (setup.pc # "serving" /\ applied(ledger) = Versions)
          => UNCHANGED <<ledger, schema, users, events>>]_vars

\* setup_database has returned for the second time on a migrated store that holds rows
C14_Witness ==
  /\ setup.pc = "returned"
  /\ setup.run = 2
  /\ ledger = AllApplied
  /\ events = <<BigMikeRow, TripRow>>
  /\ Len(users) = 1

(***************************************************************************)
(* C15. A request that fails (NotFound, UserExists, a rejected body, a     *)
(* storage failure) is isolated: the step in which it returns its error    *)
(* leaves users and events as they were, leaves it without a connection    *)
(* and the pool with every connection it had idle plus the one the request *)
(* held, and touches no other request; and the relations change only in a  *)
(* step in which some request returns success, so no step of a request     *)
(* that goes on to fail has changed them.                                  *)
(***************************************************************************)
returns_with(p, outcomes) ==
  pc[p] # "done" /\ pc'[p] = "done" /\ result'[p][1].status \in outcomes

Failures == {NotFound, UserExists, JsonRejected, InternalError}

C15_FailedOperationIsIsolated ==
  [][/\ \A p \in Procs :
          returns_with(p, Failures) =>
            /\ users' = users
            /\ events' = events
            /\ conn'[p] = None
            /\ idle' = idle \cup {conn[p][i] : i \in 1..Len(conn[p])}
            /\ pool' = pool
            /\ \A q \in Procs \ {p} :
                 pc'[q] = pc[q] /\ op'[q] = op[q] /\ conn'[q] = conn[q] /\ result'[q] = result[q]
     /\ (users' # users \/ events' # events) => \E p \in Procs : returns_with(p, {"Ok"})]_vars

\* a creation of alice met her row and returned UserExists; the lookup received after it
\* found the row as stored, and every connection is idle
C15_Witness ==
  \E p, q \in Procs :
    /\ p < q
    /\ returned(p, "user_post") /\ status(p) = UserExists
    /\ returned(q, "user_get_by_username")
    /\ result[q] = Some(Ok([username |-> "alice", created_at |-> 0]))
    /\ now > 0
    /\ idle = pool

C17_ListAllIsTheLiveRows ==
  [][/\ \A p \in Procs :
          /\ returns(p, "event_get_all") =>
               /\ result'[p] = Some(Ok(events))
               /\ \A i, j \in 1..Len(events) : events[i].id = events[j].id => i = j
          /\ returns(p, "user_get_all") =>
               /\ result'[p] = Some(Ok(users))
               /\ \A i, j \in 1..Len(users) : users[i].username = users[j].username => i = j
          /\ returns(p, "event_post") =>
               /\ result'[p][1].status = "Ok"
               /\ rows_of_id(events, result'[p][1].body.id) = {}
               /\ events' = Append(events, result'[p][1].body)
          /\ (returns(p, "event_put") /\ result'[p][1].status = "Ok") =>
               events' = [i \in 1..Len(events) |->
                            IF events[i].id = op[p].id THEN result'[p][1].body ELSE events[i]]
          /\ returns(p, "event_delete_by_id") =>
               events' = SelectSeq(events, LAMBDA row : row.id # op[p].id)
          /\ (returns(p, "user_post") /\ result'[p][1].status = "Ok") =>
               users' = Append(users, [username |-> op[p].username, created_at |-> now])
     /\ events' # events =>
          \E p \in Procs : \/ returns(p, "event_post")
                           \/ returns(p, "event_put") /\ result'[p][1].status = "Ok"
                           \/ returns(p, "event_delete_by_id")
     /\ users' # users =>
          \E p \in Procs : returns(p, "user_post") /\ result'[p][1].status = "Ok"]_vars

\* an event was created beside the stored one and the listing returned both, the stored
\* one first; or a user was created and the listing of users returned that user
C17_Witness ==
  \/ \E p, q \in Procs :
       /\ returned(p, "event_post") /\ status(p) = "Ok"
       /\ returned(q, "event_get_all") /\ result[q] = Some(Ok(<<BigMikeRow, body(p)>>))
  \/ \E p, q \in Procs :
       /\ returned(p, "user_post") /\ status(p) = "Ok"
       /\ returned(q, "user_get_all")
       /\ result[q] = Some(Ok(<<[username |-> op[p].username, created_at |-> 0]>>))

(***************************************************************************)
(* C18. A create-event, update-event or create-user request whose body is  *)
(* malformed (a required member missing or null, a member of the wrong     *)
(* JSON type) is rejected in the step that receives it: the handler        *)
(* returns the rejection without having acquired a connection or issued a  *)
(* statement, and the relations and the pool are as they were.  A body     *)
(* that is well formed goes on to acquire a connection, and a rejection    *)
(* never comes later than the receipt.                                     *)
(***************************************************************************)
malformed(request) ==
  CASE request.kind = "event_post" ->
         \E m \in {"title", "startDate", "endDate"} :
           request.body[m] = Absent \/ request.body[m] = Null
    [] request.kind = "event_put" ->
         \E m \in PatchMembers : request.body[m] = Present(JsonArray)
    [] request.kind = "user_post" ->
         request.body.username = Absent \/ request.body.username = Null

C18_MalformedInputRejectedFirst ==
  [][\A p \in Procs :
       /\ (pc[p] = "idle" /\ pc'[p] # "idle"
              /\ op'[p].kind \in {"event_post", "event_put", "user_post"})
            => IF malformed(op'[p])
               THEN /\ pc'[p] = "done"
                    /\ result'[p] = Some(Err(JsonRejected))
                    /\ UNCHANGED <<users, events, pool, idle, conn>>
               ELSE /\ pc'[p] = "acquire"
                    /\ result'[p] = None
       /\ (result[p] = None /\ result'[p] = Some(Err(JsonRejected))) => pc[p] = "idle"]_vars

\* an update whose title is an array and a creation without its required members have
\* both been rejected; the stored event is untouched and the connection is idle
C18_Witness ==
  \E p, q \in Procs :
    /\ returned(p, "event_put") /\ result[p] = Some(Err(JsonRejected)) /\ op[p].id = 1
    /\ op[q].kind \in {"event_post", "user_post"}
    /\ pc[q] = "done" /\ result[q] = Some(Err(JsonRejected))
    /\ events = <<BigMikeRow>>
    /\ users = <<>>
    /\ idle = pool

(***************************************************************************)
(* C19. check_length(field_name, field, maximum_length) returns            *)
(* TooManyCharacters with that field name and that maximum exactly when    *)
(* the field is present and its length, the number of bytes str::len       *)
(* counts, is strictly greater than maximum_length; for an absent field,   *)
(* and for a present field of length at most the maximum, it returns Ok.   *)
(***************************************************************************)
bytes(str) == Len(str) + Cardinality({i \in 1..Len(str) : str[i] # "a"})

C19_CheckLength ==
  called # NoCall =>
    LET call == called[1]
        too_long == is_some(call.field) /\ bytes(call.field[1]) > call.maximum_length
    IN /\ too_long <=>
            call.returned = TooManyCharacters(call.field_name, call.maximum_length)
       /\ ~too_long <=> call.returned = Ok(None)

\* a field of two characters and three bytes was checked against a maximum of two and
\* refused
C19_Witness ==
  /\ called # NoCall
  /\ called[1].field = Some(<<"a", "U+00E9">>)
  /\ called[1].maximum_length = 2
  /\ called[1].returned = TooManyCharacters(called[1].field_name, 2)

(***************************************************************************)
(* C20. No operation modifies or removes a row of users: every step leaves *)
(* the rows the table holds as they are, in place, and at most appends     *)
(* one.  A successful create-user leaves a row with its username, and a    *)
(* getByUsername of a username that has a row returns that row, so every   *)
(* later lookup returns the username and the created_at of the creation.   *)
(***************************************************************************)
C20_UserRowsAreImmutable ==
  [][/\ Len(users') >= Len(users)
     /\ \A i \in 1..Len(users) : users'[i] = users[i]
     /\ \A p \in Procs :
          /\ (returns(p, "user_post") /\ result'[p][1].status = "Ok") =>
               /\ rows_of_user(users, op[p].username) = {}
               /\ \E i \in rows_of_user(users', op[p].username) : users'[i].created_at = now
          /\ \A i \in rows_of_user(users, op[p].username) :
               returns(p, "user_get_by_username") => result'[p] = Some(Ok(users[i]))]_vars

\* bob was created at time 0, and a lookup at time 1, received after the creation,
\* returned bob with created_at 0
C20_Witness ==
  \E p, q \in Procs :
    /\ p < q
    /\ returned(p, "user_post") /\ status(p) = "Ok" /\ op[p].username = "bob"
    /\ returned(q, "user_get_by_username")
    /\ result[q] = Some(Ok([username |-> "bob", created_at |-> 0]))
    /\ now = 1

(***************************************************************************)
(* The reading handlers.                                                   *)
(***************************************************************************)
\* the four reading handlers and create-user, whose first statement is a read
ReadStep(p) ==
  \/ event_get_all_begin(p)
  \/ event_get_all(p)
  \/ event_get_by_id_begin(p)
  \/ event_get_by_id(p)
  \/ user_get_all_begin(p)
  \/ user_get_all(p)
  \/ user_get_by_username_begin(p)
  \/ user_get_by_username(p)
  \/ user_post_begin(p)
  \/ user_post_precheck(p)
  \/ user_post_insert(p)

NextReads == Tick \/ \E p \in Procs : ReadStep(p) \/ PoolStep(p)

SpecReads == InitLookups /\ [][NextReads]_vars

ReadKinds == {"event_get_all", "event_get_by_id", "user_get_all", "user_get_by_username"}

\* this step is one taken by the handler of a read request p, from receipt to return
read_step(p) == pc'[p] # pc[p] /\ op'[p].kind \in ReadKinds
\* this step is the pre-check of create-user, whatever it finds
precheck_step(p) == pc[p] = "precheck" /\ pc'[p] # "precheck"

\* C21: every step of list events, get event, list users and get user, and the pre-check
\* step of create-user, leaves the events and the users tables as they were, whether the
\* handler answers Ok or NotFound and whether the pre-check finds the username or not.
C21_ReadsChangeNothing ==
  [][\A p \in Procs :
       read_step(p) \/ precheck_step(p) => users' = users /\ events' = events]_vars

\* a pre-check found the username and a lookup by id was answered NotFound, and the
\* persisted rows are still the ones the process started with
C21_Witness ==
  /\ users = <<[username |-> "alice", created_at |-> 0]>>
  /\ events = <<>>
  /\ \E p, q \in Procs :
       /\ returned(p, "user_post") /\ status(p) = UserExists
       /\ returned(q, "event_get_by_id") /\ status(q) = NotFound

\* C22: when delete_by_id(id) returns and the events table held a row with that id, the
\* table afterwards is the table before without that one row: the row with that id is
\* gone, every other event row is kept, unchanged and in its place, no row is added, and
\* the users table is as it was.
C22_DeleteRemovesThatRowOnly ==
  [][\A p \in Procs :
       returns(p, "event_delete_by_id") /\ rows_of_id(events, op[p].id) # {}
       => /\ rows_of_id(events', op[p].id) = {}
          /\ Len(events') = Len(events) - 1
          /\ events' = SelectSeq(events, LAMBDA row : row.id # op[p].id)
          /\ \A i \in 1..Len(events) :
               events[i].id # op[p].id => \E j \in 1..Len(events') : events'[j] = events[i]
          /\ users' = users
          /\ status(p)' = "Ok"]_vars

\* the only request so far deleted event 1 from a store holding two events and a user
C22_Witness ==
  /\ \E p \in Procs :
       /\ returned(p, "event_delete_by_id") /\ op[p].id = 1 /\ status(p) = "Ok"
       /\ \A q \in Procs \ {p} : pc[q] = "idle"
  /\ events = <<TripRow>>
  /\ users = <<[username |-> "alice", created_at |-> 0]>>

(***************************************************************************)
(* Progress.  The runtime polls every task that can run, a statement that  *)
(* was issued runs to completion, and the pool hands an idle connection to *)
(* a task that waits for one: each of these steps is taken if it stays     *)
(* possible.  How long a task waits is not bounded by the scheduler: the   *)
(* pool's wait limit may elapse while no connection is idle.               *)
(***************************************************************************)
\* the startup, then the handler with two statements on its connection and a handler
\* with one
LiveStep(p) ==
  \/ user_post_begin(p)
  \/ user_post_precheck(p)
  \/ user_post_insert(p)
  \/ event_get_all_begin(p)
  \/ event_get_all(p)

\* the clock decides no branch of these handlers (it stamps created_at): it stands still
NextLive == SetupStep \/ \E p \in Procs : LiveStep(p) \/ PoolStep(p)

Fairness ==
  \A p \in Procs :
    /\ WF_vars(pool_get(p))
    /\ WF_vars(user_post_precheck(p))
    /\ WF_vars(user_post_insert(p))
    /\ WF_vars(event_get_all(p))

SpecLive == InitStartup /\ [][NextLive]_vars /\ Fairness

waiting(p) == pc[p] = "acquire"
started(p) == pc[p] # "idle"
terminated(p) == pc[p] \in {"done", "panicked"}
\* the connections checked out of the pool, by setup_database and by the handlers
checked_out ==
  {conn[p][1] : p \in holding} \cup
  (IF is_some(setup.connection) THEN {setup.connection[1]} ELSE {})

\* no task holds more than one connection, and none waits for one while it holds one
OneConnectionEach ==
  /\ pool \ idle = checked_out
  /\ \A p, q \in holding : conn[p] = conn[q] => p = q
  /\ \A p \in Procs : waiting(p) => conn[p] = None
  /\ is_some(setup.connection) => holding = {}

\* C23 as stated: one connection each, and under fair scheduling every operation waiting
\* in acquire eventually obtains a connection and every started operation eventually
\* terminates.
C23_EveryWaiterObtainsAConnection ==
  /\ []OneConnectionEach
  /\ \A p \in Procs : waiting(p) ~> is_some(conn[p])
  /\ \A p \in Procs : started(p) ~> terminated(p)

\* C23: each operation holds at most one pooled connection and never waits for a second
\* one while holding one; under fair scheduling, with any pool size of at least one, no
\* operation waits forever: every operation waiting in acquire eventually obtains a
\* connection or is aborted when the pool's wait limit elapses, and every started
\* operation eventually terminates, by returning or by that abort.
C23_NoOperationWaitsForever ==
  /\ []OneConnectionEach
  /\ \A p \in Procs : waiting(p) ~> (is_some(conn[p]) \/ pc[p] = "panicked")
  /\ \A p \in Procs : started(p) ~> terminated(p)

\* one connection, two requests: the second waited while the first held the connection
\* through both statements of post, and both have returned
C23_Witness ==
  /\ setup.pc = "serving" /\ pool = {1} /\ idle = pool
  /\ \E p, q \in Procs :
       /\ p # q
       /\ returned(p, "user_post") /\ status(p) = "Ok"
       /\ returned(q, "event_get_all") /\ status(q) = "Ok"
====
